---- MODULE Spec2Model ----
(***************************************************************************)
(* Model of the Bloodhound relations engine,                               *)
(* bloodhound_relations/bhrelations/api.py (class RelationsSystem).        *)
(*                                                                         *)
(* Strings are sequences of tokens: a token is an indivisible piece of     *)
(* text ("ticket", "1", "parent") or one of the delimiters ":" and ",".    *)
(* Joining and splitting act on the delimiter tokens as unicode.join and   *)
(* unicode.split act on the delimiter characters.                          *)
(***************************************************************************)
EXTENDS Integers, Sequences, FiniteSets, TLC

VARIABLES self, store, status, last, pc

vars == <<self, store, status, last, pc>>

(***************************************************************************)
(* Bounds of the model.                                                    *)
(***************************************************************************)
\* Tickets 1..NumRes exist in the global environment.
NumRes == 3
\* add is not called once the store holds the rows of MaxRels paired relations.
MaxRels == 3
\* The concurrent callers of SpecConc relate tickets 1..NumConc.
NumConc == 2
\* The id of a resource handed to the locator has at most MaxIdLen tokens.
MaxIdLen == 3
\* A configuration section written by an administrator declares at most
\* MaxPairs relation types.
MaxPairs == 2

(***************************************************************************)
(* Strings.                                                                *)
(***************************************************************************)
\* Python's None, as a string no program text equals.
None == <<"<None>">>

S(tok) == <<tok>>

\* Python truthiness of an optional string: None and u'' are false.
Truthy(x) == x # None /\ x # <<>>

PARENT_RELATION_TYPE == S("parent")
RESOURCE_ID_DELIMITER == ":"
RELATION_ID_DELIMITER == ","

\* delim.join(parts)
RECURSIVE join(_, _)
join(delim, parts) ==
    IF parts = <<>> THEN <<>>
    ELSE IF Len(parts) = 1 THEN parts[1]
    ELSE parts[1] \o <<delim>> \o join(delim, Tail(parts))

\* s.split(delim)
RECURSIVE split(_, _)
split(s, delim) ==
    IF \A i \in 1..Len(s) : s[i] # delim THEN <<s>>
    ELSE LET i == CHOOSE k \in 1..Len(s) :
                      s[k] = delim /\ \A j \in 1..(k - 1) : s[j] # delim
         IN  <<SubSeq(s, 1, i - 1)>> \o split(SubSeq(s, i + 1, Len(s)), delim)

\* s.strip(): leading and trailing blanks removed
RECURSIVE strip(_)
strip(s) ==
    IF s = <<>> THEN s
    ELSE IF Head(s) = " " THEN strip(Tail(s))
    ELSE IF s[Len(s)] = " " THEN strip(SubSeq(s, 1, Len(s) - 1))
    ELSE s

\* The tokens in the order of their text, the order the database sorts by.
TokenOrder ==
    <<" ", ",", "1", "2", "3", "4", "5", "6", "7", "8", "9", ":",
      "a", "b", "blocked_by", "blocks", "bogus", "child", "dependent",
      "dependson", "parent", "refersto", "ticket", "wiki">>

TokenRank(tok) == CHOOSE i \in 1..Len(TokenOrder) : TokenOrder[i] = tok

\* a < b as strings
RECURSIVE StrLess(_, _)
StrLess(a, b) ==
    IF b = <<>> THEN FALSE
    ELSE IF a = <<>> THEN TRUE
    ELSE IF Head(a) = Head(b) THEN StrLess(Tail(a), Tail(b))
    ELSE TokenRank(Head(a)) < TokenRank(Head(b))

(***************************************************************************)
(* Configuration: the [bhrelations_links] section.  An option whose name   *)
(* has no '.' declares a pair of ends; validator is the option             *)
(* <name>.validator (None when absent) and blocks the set of ends whose    *)
(* <end>.blocks option is true.                                            *)
(***************************************************************************)
ParentConfig ==
    << [name |-> S("parent"),
        value |-> <<"parent", ",", " ", "child">>,
        validator |-> S("parent_child"),
        blocks |-> {}] >>

DependsConfig ==
    << [name |-> S("depends"),
        value |-> <<"dependson", ",", "dependent">>,
        validator |-> S("no_cycle"),
        blocks |-> {}] >>

BlocksConfig ==
    << [name |-> S("blocks"),
        value |-> <<"blocks", ",", "blocked_by">>,
        validator |-> None,
        blocks |-> {S("blocks")}] >>

\* A relation type with a single end.
OnewayConfig ==
    << [name |-> S("refersto"),
        value |-> <<"refersto">>,
        validator |-> S("no_cycle"),
        blocks |-> {}] >>

Configs == {ParentConfig, DependsConfig, BlocksConfig, OnewayConfig}

\* dict item assignment d[k] = v, on a dict kept as a function
DictSet(d, k, v) == (k :> v) @@ d

\* d.get(k)
DictGet(d, k) == IF k \in DOMAIN d THEN d[k] ELSE None

EmptyDict == [k \in {} |-> None]

\* One pass of the loop of _get_links_config over the declared pairs:
\* the (end1, end2) pair of an option.
EndsOf(option) ==
    LET parts == split(option.value, ",")
        ends == [i \in 1..Len(parts) |-> strip(parts[i])]
    IN  <<ends[1], IF Len(ends) > 1 THEN ends[2] ELSE None>>

RECURSIVE _get_links_config(_)
_get_links_config(config) ==
    IF config = <<>>
    THEN [links |-> <<>>, validators |-> EmptyDict, blockers |-> EmptyDict]
    ELSE LET n == Len(config)
             option == config[n]
             sofar == _get_links_config(SubSeq(config, 1, n - 1))
             end1 == EndsOf(option)[1]
             end2 == EndsOf(option)[2]
             v1 == IF Truthy(option.validator)
                   THEN DictSet(sofar.validators, end1, option.validator)
                   ELSE sofar.validators
             v2 == IF Truthy(option.validator) /\ Truthy(end2)
                   THEN DictSet(v1, end2, option.validator)
                   ELSE v1
             b1 == DictSet(sofar.blockers, end1, end1 \in option.blocks)
             b2 == IF Truthy(end2)
                   THEN DictSet(b1, end2, end2 \in option.blocks)
                   ELSE b1
         IN  [links |-> Append(sofar.links, <<end1, end2>>),
              validators |-> v2,
              blockers |-> b2]

\* The loop of __init__ over get_ends(), which is self._links: a later pair
\* overwrites an earlier one.
RECURSIVE LinkEndsLoop(_)
LinkEndsLoop(ends) ==
    IF ends = <<>> THEN EmptyDict
    ELSE LET n == Len(ends)
             sofar == LinkEndsLoop(SubSeq(ends, 1, n - 1))
             end1 == ends[n][1]
             end2 == ends[n][2]
             m1 == DictSet(sofar, end1, end2)
         IN  IF end2 # None THEN DictSet(m1, end2, end1) ELSE m1

\* __init__: the component built from the configuration section config
RelationsSystem(config) ==
    [config |-> config,
     _links |-> _get_links_config(config).links,
     _validators |-> _get_links_config(config).validators,
     _blockers |-> _get_links_config(config).blockers,
     link_ends_map |-> LinkEndsLoop(_get_links_config(config).links)]

\* The relation type names a caller passes: the configured ends and one
\* name that is no end of any pair.
BogusType == S("bogus")

CallTypes(rs) == DOMAIN rs.link_ends_map \cup {BogusType}

(***************************************************************************)
(* Resource locator.                                                       *)
(***************************************************************************)
\* A ticket of the global environment, whose neighborhood prefix is u''.
Ticket(i) == [prefix |-> <<>>, realm |-> S("ticket"), id |-> S(ToString(i))]

Tickets == {Ticket(i) : i \in 1..NumRes}

get_resource_id_from_instance(resource) ==
    join(RESOURCE_ID_DELIMITER, <<resource.prefix, resource.realm, resource.id>>)

split_full_id(resource_full_id) == split(resource_full_id, RESOURCE_ID_DELIMITER)

\* get_resource_shortname of a ticket is '#<id>'
_get_resource_name_from_id(resource_id) ==
    <<"#">> \o split_full_id(resource_id)[3]

(***************************************************************************)
(* Relation store: bhrelations.model.Relation over the table               *)
(* bloodhound_relations.  A row is its (source, destination, type) triple. *)
(***************************************************************************)
Row(source, destination, type) ==
    [source |-> source, destination |-> destination, type |-> type]

\* relation.insert(): the triple is unique
Relation_insert(st, relation) ==
    IF relation \in st
    THEN [ok |-> FALSE, store |-> st]
    ELSE [ok |-> TRUE, store |-> st \cup {relation}]

\* Mutant: every row of the relation's source is removed.
Relation_delete_all_of_source(st, relation) ==
    {r \in st : r.source # relation.source}

\* relation.delete(): removing a row that is not stored changes nothing
Relation_delete(st, relation) == st \ {relation}

\* Relation(env, keys=dict(source=..., destination=..., type=...))
Relation_load(st, source, destination, type) == Row(source, destination, type)

\* relation.clone_reverted(type): roles swapped, the given type
clone_reverted(relation, type) ==
    Row(relation.destination, relation.source, type)

RECURSIVE RowLess(_, _, _)
RowLess(a, b, order_by) ==
    IF order_by = <<>> THEN FALSE
    ELSE LET col == Head(order_by) IN
         IF a[col] = b[col] THEN RowLess(a, b, Tail(order_by))
         ELSE StrLess(a[col], b[col])

RECURSIVE Sorted(_, _)
Sorted(rows, order_by) ==
    IF rows = {} THEN <<>>
    ELSE LET first == CHOOSE r \in rows :
                          \A o \in rows \ {r} : ~RowLess(o, r, order_by)
         IN  <<first>> \o Sorted(rows \ {first}, order_by)

\* Relation.select(env, where=..., order_by=...); type = None: no type in where
Relation_select(st, source, type, order_by) ==
    Sorted({r \in st : r.source = source /\ (type = None \/ r.type = type)},
           order_by)

\* Mutant: the unfiltered selection is ordered by destination alone.
_select_relations_by_source_destination_only(st, source, resource_type) ==
    IF Truthy(resource_type)
    THEN Relation_select(st, source, resource_type, <<"destination">>)
    ELSE Relation_select(st, source, None, <<"destination">>)

_select_relations_by_source(st, source, resource_type) ==
    IF Truthy(resource_type)
    THEN Relation_select(st, source, resource_type, <<"destination">>)
    ELSE Relation_select(st, source, None, <<"type", "destination">>)

_create_relation_id(relation) ==
    join(RELATION_ID_DELIMITER,
         <<relation.source, relation.destination, relation.type>>)

(***************************************************************************)
(* Cycle detector.                                                         *)
(***************************************************************************)
NoCycle == [kind |-> "none", path |-> <<>>]
Cycle(path) == [kind |-> "cycle", path |-> path]
\* RuntimeError: maximum recursion depth exceeded
Overflow == [kind |-> "overflow", path |-> <<>>]

Nodes(st) == {r.source : r \in st} \cup {r.destination : r \in st}

\* Every frame of _find_cycle appends one node to the path; a path with more
\* nodes than the proposed destination and the stored nodes repeats a node,
\* and from a repeated node the search repeats itself without end, until
\* the interpreter's recursion limit raises RuntimeError.
RecursionLimit(st) == Cardinality(Nodes(st)) + 1

RECURSIVE _find_cycle(_, _, _, _, _)
RECURSIVE find_cycle_loop(_, _, _, _, _)
RECURSIVE find_cycle_next(_, _, _, _, _, _)
\* Mutant: the search stops at the proposed destination and follows no edge.
_find_cycle_no_descent(st, source_to_check, relation, path, depth) ==
    IF source_to_check = relation.destination
    THEN Cycle(Append(path, relation.destination))
    ELSE NoCycle

\* Mutant: the destination of the proposed relation itself is not compared
\* with the source to check.
_find_cycle_proposed_not_compared(st, source_to_check, relation, path, depth) ==
    LET destination == relation.destination IN
    IF depth > RecursionLimit(st) THEN Overflow
    ELSE IF depth > 1 /\ source_to_check = destination
    THEN Cycle(Append(path, destination))
    ELSE find_cycle_loop(st, source_to_check,
                         Relation_select(st, destination, relation.type,
                                         <<"destination">>),
                         Append(path, destination), depth)

\* Mutant: the nodes passed on the way are not kept in the path.
_find_cycle_path_not_kept(st, source_to_check, relation, path, depth) ==
    LET destination == relation.destination IN
    IF depth > RecursionLimit(st) THEN Overflow
    ELSE IF source_to_check = destination
    THEN Cycle(Append(path, destination))
    ELSE find_cycle_loop(st, source_to_check,
                         Relation_select(st, destination, relation.type,
                                         <<"destination">>),
                         path, depth)

_find_cycle(st, source_to_check, relation, path, depth) ==
    LET destination == relation.destination IN
    IF depth > RecursionLimit(st) THEN Overflow
    ELSE IF source_to_check = destination
    THEN Cycle(Append(path, destination))
    ELSE find_cycle_loop(st, source_to_check,
                         Relation_select(st, destination, relation.type,
                                         <<"destination">>),
                         Append(path, destination), depth)

\* for linked_relation in relations: the first cycle found is returned
find_cycle_loop(st, source_to_check, relations, path, depth) ==
    IF relations = <<>> THEN NoCycle
    ELSE find_cycle_next(st, source_to_check, relations, path, depth,
                         _find_cycle(st, source_to_check, Head(relations),
                                     path, depth + 1))

\* if cycle is not None: return cycle
find_cycle_next(st, source_to_check, relations, path, depth, cycle) ==
    IF cycle # NoCycle THEN cycle
    ELSE find_cycle_loop(st, source_to_check, Tail(relations), path, depth)

(***************************************************************************)
(* Validation pipeline.  A validator returns None (Accepted) or the text   *)
(* of a rejection, kept as its parts: the relation type it renders, the    *)
(* source it names and the resource names it lists.                        *)
(***************************************************************************)
Accepted == [kind |-> "none", type |-> None, source |-> None, names |-> <<>>]
Crashed == [kind |-> "overflow", type |-> None, source |-> None, names |-> <<>>]

_validate_any(st, relation) == Accepted

\* Mutant: a cycle that was found is not reported.
CycleMessage_ignored(relation, cycle) ==
    IF cycle = Overflow THEN Crashed ELSE Accepted

\* if cycle != None: return 'Cycle in <type>: <names joined by ->>'
CycleMessage(relation, cycle) ==
    IF cycle = Overflow THEN Crashed
    ELSE IF cycle # NoCycle
    THEN [kind |-> "cycle", type |-> relation.type, source |-> None,
          names |-> [i \in 1..Len(cycle.path) |->
                        _get_resource_name_from_id(cycle.path[i])]]
    ELSE Accepted

_validate_no_cycle(st, relation) ==
    CycleMessage(relation,
                 _find_cycle(st, relation.source, relation, <<>>, 1))

\* Mutant: the parents the source already has are not looked at.
MultipleLinksMessage_ignored(relation, parent_relations) == Accepted

\* if len(parent_relations): return "Multiple links in <type>: ..."
MultipleLinksMessage(relation, parent_relations) ==
    IF Len(parent_relations) > 0
    THEN [kind |-> "multiple", type |-> relation.type,
          source |-> _get_resource_name_from_id(relation.source),
          names |-> [i \in 1..Len(parent_relations) |->
                        _get_resource_name_from_id(
                            parent_relations[i].destination)]]
    ELSE Accepted

\* _validate_parent once the cycle check has returned cycle_validation
ParentCheck(st, relation, cycle_validation) ==
    IF cycle_validation # Accepted THEN cycle_validation
    ELSE IF relation.type = PARENT_RELATION_TYPE
    THEN MultipleLinksMessage(
             relation,
             _select_relations_by_source(st, relation.source, relation.type))
    ELSE Accepted

_validate_parent(st, relation) ==
    ParentCheck(st, relation, _validate_no_cycle(st, relation))

\* The if/elif/else of _get_validator over the configured validator name
ValidatorNamed(validator_name, relation_type) ==
    IF validator_name = S("no_cycle") THEN "_validate_no_cycle"
    ELSE IF validator_name = S("parent_child")
            /\ relation_type = PARENT_RELATION_TYPE
    THEN "_validate_parent"
    ELSE "_validate_any"

\* The validator _get_validator selects for the type, by name.
_get_validator(rs, relation_type) ==
    ValidatorNamed(DictGet(rs._validators, relation_type), relation_type)

\* result = validator(relation)
CallValidator(validator, st, relation) ==
    IF validator = "_validate_no_cycle" THEN _validate_no_cycle(st, relation)
    ELSE IF validator = "_validate_parent" THEN _validate_parent(st, relation)
    ELSE _validate_any(st, relation)

\* validate: the selected validator's result; anything but Accepted is raised
validate(rs, st, relation) ==
    CallValidator(_get_validator(rs, relation.type), st, relation)

(***************************************************************************)
(* Relations facade.  Each operation returns the store it leaves and how   *)
(* it ended: "ok" or the exception raised.  An exception raised inside     *)
(* `with self.env.db_transaction` rolls the transaction back.              *)
(***************************************************************************)
\* The end of a transaction: committed, or rolled back to st by an exception
Commit(st_after) == [store |-> st_after, outcome |-> "ok"]
Rollback(st, exception) == [store |-> st, outcome |-> exception]

\* reverted_relation.insert(), inside the transaction begun on st
InsertReverted(st, inserted, reverted) ==
    IF reverted.ok THEN Commit(reverted.store)
    ELSE Rollback(st, "DuplicateRelation")

\* Mutant: the reverted relation keeps the type of the relation.
InsertOtherEnd_same_type(ends_map, st, relation, inserted) ==
    IF ~inserted.ok THEN Rollback(st, "DuplicateRelation")
    ELSE IF relation.type \notin DOMAIN ends_map THEN Rollback(st, "KeyError")
    ELSE IF Truthy(ends_map[relation.type])
    THEN InsertReverted(st, inserted,
                        Relation_insert(
                            inserted.store,
                            clone_reverted(relation, relation.type)))
    ELSE Commit(inserted.store)

\* Mutant: the reverted relation is inserted whatever the other end is.
InsertOtherEnd_always(ends_map, st, relation, inserted) ==
    IF ~inserted.ok THEN Rollback(st, "DuplicateRelation")
    ELSE IF relation.type \notin DOMAIN ends_map THEN Rollback(st, "KeyError")
    ELSE InsertReverted(st, inserted,
                        Relation_insert(
                            inserted.store,
                            clone_reverted(relation, ends_map[relation.type])))

\* Mutant: the KeyError of an unknown type leaves the inserted row behind.
InsertOtherEnd_no_rollback(ends_map, st, relation, inserted) ==
    IF ~inserted.ok THEN Rollback(st, "DuplicateRelation")
    ELSE IF relation.type \notin DOMAIN ends_map
    THEN [store |-> inserted.store, outcome |-> "KeyError"]
    ELSE IF Truthy(ends_map[relation.type])
    THEN InsertReverted(st, inserted,
                        Relation_insert(
                            inserted.store,
                            clone_reverted(relation, ends_map[relation.type])))
    ELSE Commit(inserted.store)

\* The transaction of add_relation once the relation is inserted, with
\* ends_map = self.link_ends_map
InsertOtherEnd(ends_map, st, relation, inserted) ==
    IF ~inserted.ok THEN Rollback(st, "DuplicateRelation")
    ELSE IF relation.type \notin DOMAIN ends_map THEN Rollback(st, "KeyError")
    ELSE IF Truthy(ends_map[relation.type])
    THEN InsertReverted(st, inserted,
                        Relation_insert(
                            inserted.store,
                            clone_reverted(relation, ends_map[relation.type])))
    ELSE Commit(inserted.store)

\* The transaction of add_relation
add_transaction(rs, st, relation) ==
    InsertOtherEnd(rs.link_ends_map, st, relation,
                   Relation_insert(st, relation))

\* Mutant: the transaction runs before the validation result is raised.
AfterValidate_commit_first(rs, st, relation, validation) ==
    IF validation = Crashed
    THEN Rollback(st, "RuntimeError") @@ [validation |-> validation]
    ELSE IF validation # Accepted
    THEN [store |-> add_transaction(rs, st, relation).store,
          outcome |-> "ValidationError", validation |-> validation]
    ELSE add_transaction(rs, st, relation) @@ [validation |-> validation]

\* add_relation once validate has returned validation or raised
AfterValidate(rs, st, relation, validation) ==
    IF validation = Crashed
    THEN Rollback(st, "RuntimeError") @@ [validation |-> validation]
    ELSE IF validation # Accepted
    THEN Rollback(st, "ValidationError") @@ [validation |-> validation]
    ELSE add_transaction(rs, st, relation) @@ [validation |-> validation]

add_relation(rs, st, relation) ==
    AfterValidate(rs, st, relation, validate(rs, st, relation))

\* The relation add builds from its arguments
NewRelation(source_instance, destination_instance, relation_type) ==
    Row(get_resource_id_from_instance(source_instance),
        get_resource_id_from_instance(destination_instance),
        relation_type)

\* add has no return statement: a call that does not raise returns None
AddOf(rs, st, relation) ==
    add_relation(rs, st, relation)
        @@ [relation |-> relation, ret |-> None]

add(rs, st, source_instance, destination_instance, relation_type) ==
    AddOf(rs, st,
          NewRelation(source_instance, destination_instance, relation_type))

\* source, destination, relation_type = relation_id.split(','): unpacking
\* anything but three parts raises ValueError
_parse_relation_id(relation_id) == split(relation_id, RELATION_ID_DELIMITER)

\* Mutant: the relation of the other end is left in the store.
DeleteOtherEnd_forward_only(ends_map, st, relation, deleted) ==
    IF relation.type \notin DOMAIN ends_map THEN Rollback(st, "KeyError")
    ELSE Commit(deleted)

\* Mutant: the relation of the other end is looked up with the roles of
\* source and destination not swapped.
DeleteOtherEnd_unswapped(ends_map, st, relation, deleted) ==
    IF relation.type \notin DOMAIN ends_map THEN Rollback(st, "KeyError")
    ELSE IF Truthy(ends_map[relation.type])
    THEN Commit(Relation_delete(
                    deleted,
                    Relation_load(deleted, relation.source,
                                  relation.destination,
                                  ends_map[relation.type])))
    ELSE Commit(deleted)

\* The transaction of _delete_relation once the relation is deleted, with
\* ends_map = self.link_ends_map
DeleteOtherEnd(ends_map, st, relation, deleted) ==
    IF relation.type \notin DOMAIN ends_map THEN Rollback(st, "KeyError")
    ELSE IF Truthy(ends_map[relation.type])
    THEN Commit(Relation_delete(
                    deleted,
                    Relation_load(deleted, relation.destination,
                                  relation.source, ends_map[relation.type])))
    ELSE Commit(deleted)

_delete_relation(rs, st, relation) ==
    DeleteOtherEnd(rs.link_ends_map, st, relation,
                   Relation_delete(st, relation))

\* Mutant: parts after the third are dropped instead of failing the call.
DeleteParsed_extra_parts_dropped(rs, st, parts) ==
    IF Len(parts) < 3 THEN Rollback(st, "ValueError")
    ELSE _delete_relation(rs, st,
                          Relation_load(st, parts[1], parts[2], parts[3]))

\* delete once the id is split into parts
DeleteParsed(rs, st, parts) ==
    IF Len(parts) # 3 THEN Rollback(st, "ValueError")
    ELSE _delete_relation(rs, st,
                          Relation_load(st, parts[1], parts[2], parts[3]))

delete(rs, st, relation_id) ==
    DeleteParsed(rs, st, _parse_relation_id(relation_id))

(***************************************************************************)
(* Queries.  st_status is the 'status' field of the tickets as the call    *)
(* finds it.                                                               *)
(***************************************************************************)
\* Ticket(env, resource_id) for realm 'ticket'; what another realm raises
\* is ResourceError below
_create_resource_by_ids(nbhprefix, realm, resource_id) ==
    [prefix |-> nbhprefix, realm |-> realm, id |-> resource_id]

\* nbhprefix, realm, resource_id = self.split_full_id(resource_full_id)
_create_resource_instance_by_full_id(resource_full_id) ==
    _create_resource_by_ids(split_full_id(resource_full_id)[1],
                            split_full_id(resource_full_id)[2],
                            split_full_id(resource_full_id)[3])

_select_relations_for_resource(st, resource, resource_type) ==
    _select_relations_by_source(st, get_resource_id_from_instance(resource),
                                resource_type)

\* What _create_resource_instance_by_full_id raises: ValueError when the id
\* does not unpack into three parts; for a realm other than 'ticket' the
\* raise statement of _create_resource_by_ids, whose message expression
\* ("..." + "Bloodhound Relations" % realm) raises TypeError before the
\* TracError is built; "ok" when it returns
ResourceError(resource_full_id) ==
    IF Len(split_full_id(resource_full_id)) # 3 THEN "ValueError"
    ELSE IF split_full_id(resource_full_id)[2] # S("ticket") THEN "TypeError"
    ELSE "ok"

\* The error of the first relation of the list whose destination cannot be
\* made an instance, "ok" when there is none
RECURSIVE get_relations_error(_)
get_relations_error(relations) ==
    IF relations = <<>> THEN "ok"
    ELSE IF ResourceError(Head(relations).destination) # "ok"
    THEN ResourceError(Head(relations).destination)
    ELSE get_relations_error(Tail(relations))

\* One dict of the list get_relations returns (the comment left out)
RelationDict(relation) ==
    [relation_id |-> _create_relation_id(relation),
     destination_id |-> relation.destination,
     destination |-> _create_resource_instance_by_full_id(relation.destination),
     type |-> relation.type]

get_relations(st, resource_instance) ==
    [i \in 1..Len(_select_relations_for_resource(st, resource_instance, None))
        |-> RelationDict(
                _select_relations_for_resource(st, resource_instance, None)[i])]

is_blocker(rs, relation_type) == rs._blockers[relation_type]

\* ticket['status'] != 'closed'
_is_resource_blocked(st_status, resource_instance) ==
    st_status[get_resource_id_from_instance(resource_instance)] # "closed"

\* Every frame of find_blockers below the first holds a stored relation; a
\* stack deeper than the stored relations and the first one repeats a
\* relation, and from a repeated relation the traversal repeats itself
\* without end, until the recursion limit raises RuntimeError.
BlockerRecursionLimit(st) == Cardinality(st) + 1

Found(blockers) == [kind |-> "ok", blockers |-> blockers]
BlockersOverflow == [kind |-> "overflow", blockers |-> <<>>]

RECURSIVE find_blockers(_, _, _, _, _)
RECURSIVE find_blockers_loop(_, _, _, _, _)
RECURSIVE find_blockers_next(_, _, _, _, _)
find_blockers(st, st_status, relation, blockers, depth) ==
    IF depth > BlockerRecursionLimit(st) THEN BlockersOverflow
    ELSE find_blockers_loop(
             st, st_status,
             _select_relations_by_source(st, relation.destination, None),
             blockers, depth)

\* for linked_relation in ...: a blocked destination is appended, a
\* destination that is not blocked is searched in turn
find_blockers_loop(st, st_status, relations, blockers, depth) ==
    IF relations = <<>> THEN Found(blockers)
    ELSE IF _is_resource_blocked(
                st_status,
                _create_resource_instance_by_full_id(Head(relations).destination))
    THEN find_blockers_loop(
             st, st_status, Tail(relations),
             Append(blockers,
                    _create_resource_instance_by_full_id(
                        Head(relations).destination)),
             depth)
    ELSE find_blockers_next(
             st, st_status, relations, depth,
             find_blockers(st, st_status, Head(relations), blockers,
                           depth + 1))

\* the recursive call has appended to the shared list blockers, or raised
find_blockers_next(st, st_status, relations, depth, found) ==
    IF found = BlockersOverflow THEN found
    ELSE find_blockers_loop(st, st_status, Tail(relations), found.blockers,
                            depth)

\* The loop of the generator can_be_resolved.  find_blockers is declared
\* with the parameters (relation, blockers) and called here as
\* self.find_blockers(relation): the call raises TypeError before the body
\* of find_blockers runs, at the first relation of a blocking type.
RECURSIVE can_be_resolved_loop(_, _, _)
can_be_resolved_loop(rs, relations, yielded) ==
    IF relations = <<>> THEN [outcome |-> "ok", result |-> yielded]
    ELSE IF is_blocker(rs, Head(relations).type)
    THEN [outcome |-> "TypeError", result |-> yielded]
    ELSE can_be_resolved_loop(rs, Tail(relations), yielded)

\* list(can_be_resolved(resource)): the (None, msg) pairs yielded and how
\* the iteration ended
can_be_resolved(rs, st, st_status, resource) ==
    can_be_resolved_loop(rs, _select_relations_for_resource(st, resource, None),
                         <<>>)

(***************************************************************************)
(* State.  self is the component as __init__ builds it from its section    *)
(* of the configuration, store the rows of bloodhound_relations, status    *)
(* the 'status' field of each ticket, last the latest call of the          *)
(* sequential caller (or the change of a ticket's status that came after   *)
(* it) with the store it found, and pc the position of each concurrent     *)
(* caller inside add.                                                      *)
(***************************************************************************)
NoRow == Row(None, None, None)

Procs == {"p1", "p2"}

Idle == [at |-> "idle", relation |-> NoRow]

Keys == {get_resource_id_from_instance(t) : t \in Tickets}

\* Ids that do not split on ',' into three parts: two parts, one part, and
\* the id of a relation between tickets 1 and 2 with a fourth part after it
MalformedIds(rs) ==
    {<<"onlytwo", ",", "parts">>, <<"nocomma">>}
        \cup {_create_relation_id(NewRelation(Ticket(1), Ticket(2), t))
                  \o <<",", "extra">> : t \in DOMAIN rs.link_ends_map}

\* The relation ids a caller passes to delete: the id of a stored relation,
\* an id of each type name between tickets 1 and 2, stored or not, or a
\* malformed id
RelationIds(rs, st) ==
    {_create_relation_id(r) : r \in st}
        \cup {_create_relation_id(NewRelation(Ticket(1), Ticket(2), t)) :
                 t \in CallTypes(rs)}
        \cup MalformedIds(rs)

Init ==
    /\ self \in {RelationsSystem(c) : c \in Configs}
    /\ store = {}
    /\ status = [k \in Keys |-> "new"]
    /\ last = [op |-> "none", relation_id |-> None, before |-> {},
               relation |-> NoRow, validation |-> Accepted, outcome |-> "ok",
               ret |-> None, result |-> <<>>]
    /\ pc = [p \in Procs |-> Idle]

\* Room for one more relation
Room == Cardinality(store) < 2 * MaxRels

\* A call returns: the store is as the call left it, and last records what
\* was called on which store and how it ended.
Return(op, relation_id, done) ==
    /\ store' = done.store
    /\ last' = [op |-> op, relation_id |-> relation_id, before |-> store,
                relation |-> done.relation, validation |-> done.validation,
                outcome |-> done.outcome, ret |-> done.ret, result |-> <<>>]

\* A sequential call of add
Add(source, destination, relation_type) ==
    /\ Room
    /\ Return("add", None,
              add(self, store, source, destination, relation_type))
    /\ UNCHANGED <<self, status, pc>>

\* A sequential call of delete, which returns None
Delete(relation_id) ==
    /\ Return("delete", relation_id,
              delete(self, store, relation_id)
                  @@ [relation |-> NoRow, validation |-> Accepted,
                      ret |-> None])
    /\ UNCHANGED <<self, status, pc>>

Next ==
    \/ \E s \in Tickets, d \in Tickets, t \in CallTypes(self) : Add(s, d, t)
    \/ \E id \in RelationIds(self, store) : Delete(id)

Spec == Init /\ [][Next]_vars

(***************************************************************************)
(* Concurrent callers.  validate reads the store before the transaction    *)
(* of add_relation begins, so a caller of add takes two steps: validate,   *)
(* then the transaction.  A transaction is one step, and so is delete,     *)
(* whose only access to the store outside its transaction reads one row.   *)
(***************************************************************************)
\* add_relation after validate: in front of the transaction, or raised
Validated(relation, validation) ==
    IF validation = Accepted
    THEN [at |-> "validated", relation |-> relation]
    ELSE Idle

AddValidate(p, source, destination, relation_type) ==
    /\ pc[p].at = "idle"
    /\ Room
    /\ pc' = [pc EXCEPT ![p] =
                Validated(NewRelation(source, destination, relation_type),
                          validate(self, store,
                                   NewRelation(source, destination,
                                               relation_type)))]
    /\ UNCHANGED <<self, store, status, last>>

AddCommit(p) ==
    /\ pc[p].at = "validated"
    /\ store' = add_transaction(self, store, pc[p].relation).store
    /\ pc' = [pc EXCEPT ![p] = Idle]
    /\ UNCHANGED <<self, status, last>>

DeleteBy(p, relation_id) ==
    /\ pc[p].at = "idle"
    /\ store' = delete(self, store, relation_id).store
    /\ UNCHANGED <<self, status, last, pc>>

ConcTickets == {Ticket(i) : i \in 1..NumConc}

NextConc ==
    \/ \E p \in Procs, s \in ConcTickets, d \in ConcTickets,
          t \in CallTypes(self) : AddValidate(p, s, d, t)
    \/ \E p \in Procs : AddCommit(p)
    \/ \E p \in Procs, id \in RelationIds(self, store) : DeleteBy(p, id)

SpecConc == Init /\ [][NextConc]_vars

\* The ends whose adds a validator checks
ValidatedTypes(rs) ==
    {t \in DOMAIN rs.link_ends_map :
        _get_validator(rs, t) # "_validate_any"}

\* Concurrent callers that add relations of validated types only
NextConcValidated ==
    \/ \E p \in Procs, s \in Tickets, d \in Tickets,
          t \in ValidatedTypes(self) : AddValidate(p, s, d, t)
    \/ \E p \in Procs : AddCommit(p)
    \/ \E p \in Procs, id \in RelationIds(self, store) : DeleteBy(p, id)

SpecConcValidated == Init /\ [][NextConcValidated]_vars

(***************************************************************************)
(* Queries of a sequential caller, between its add and delete calls and    *)
(* the changes of ticket status made elsewhere in the tracker.             *)
(***************************************************************************)
\* A query returns: nothing stored changes, and last records what was asked
\* (source and type filter, or the relation searched from) and the answer.
Answer(op, relation, done) ==
    /\ last' = [op |-> op, relation_id |-> None, before |-> store,
                relation |-> relation, validation |-> Accepted,
                outcome |-> done.outcome, ret |-> None, result |-> done.result]
    /\ UNCHANGED <<self, store, status, pc>>

\* The ticket is closed or reopened; _is_resource_blocked reads the field.
\* The answer of an earlier query is out of date from here on: last records
\* the change in its place.
SetStatus(resource, value) ==
    /\ status[get_resource_id_from_instance(resource)] # value
    /\ status' = [status EXCEPT ![get_resource_id_from_instance(resource)] = value]
    /\ last' = [op |-> "set_status",
                relation_id |-> get_resource_id_from_instance(resource),
                before |-> store, relation |-> NoRow, validation |-> Accepted,
                outcome |-> "ok", ret |-> None, result |-> <<>>]
    /\ UNCHANGED <<self, store, pc>>

CanBeResolved(resource) ==
    Answer("can_be_resolved",
           Row(get_resource_id_from_instance(resource), None, None),
           can_be_resolved(self, store, status, resource))

\* How a call of find_blockers ends
BlockersResult(found) ==
    IF found = BlockersOverflow
    THEN [outcome |-> "RuntimeError", result |-> <<>>]
    ELSE [outcome |-> "ok", result |-> found.blockers]

\* find_blockers(relation, []) for a stored relation
FindBlockers(relation) ==
    Answer("find_blockers", relation,
           BlockersResult(find_blockers(store, status, relation, <<>>, 1)))

\* How a call of get_relations ends, error being what its loop raises
GetRelationsResult(st, resource, error) ==
    IF error # "ok" THEN [outcome |-> error, result |-> <<>>]
    ELSE [outcome |-> "ok", result |-> get_relations(st, resource)]

GetRelations(resource) ==
    Answer("get_relations",
           Row(get_resource_id_from_instance(resource), None, None),
           GetRelationsResult(
               store, resource,
               get_relations_error(
                   _select_relations_for_resource(store, resource, None))))

\* _select_relations_for_resource(resource, resource_type); None: no filter
SelectForResource(resource, resource_type) ==
    Answer("select",
           Row(get_resource_id_from_instance(resource), None, resource_type),
           [outcome |-> "ok",
            result |-> _select_relations_for_resource(store, resource,
                                                      resource_type)])

\* The caller asks what blocks a ticket, between its calls of add and
\* delete and the closing and reopening of tickets
NextQuery ==
    \/ \E s \in ConcTickets, d \in ConcTickets, t \in CallTypes(self) :
          Add(s, d, t)
    \/ \E id \in RelationIds(self, store) : Delete(id)
    \/ \E r \in ConcTickets, v \in {"new", "closed"} : SetStatus(r, v)
    \/ \E r \in ConcTickets : CanBeResolved(r)
    \/ \E r \in store : FindBlockers(r)

SpecQuery == Init /\ [][NextQuery]_vars

\* How a call of _find_cycle ends: its return value, None or the path
CycleResult(cycle) ==
    IF cycle = Overflow
    THEN [outcome |-> "RuntimeError", result |-> <<>>]
    ELSE [outcome |-> "ok", result |-> <<cycle>>]

\* _find_cycle(relation.source, relation, []) for a proposed relation, as
\* _validate_no_cycle calls it
FindCycle(relation) ==
    Answer("_find_cycle", relation,
           CycleResult(_find_cycle(store, relation.source, relation, <<>>, 1)))

\* The caller lists the relations of a ticket and searches for cycles,
\* between its calls of add and delete
NextSelect ==
    \/ \E s \in ConcTickets, d \in ConcTickets,
          t \in DOMAIN self.link_ends_map : Add(s, d, t)
    \/ \E r \in store : Delete(_create_relation_id(r))
    \/ \E r \in ConcTickets : GetRelations(r)
    \/ \E r \in ConcTickets, t \in DOMAIN self.link_ends_map \cup {None} :
          SelectForResource(r, t)
    \/ \E s \in ConcTickets, d \in ConcTickets,
          t \in DOMAIN self.link_ends_map : FindCycle(NewRelation(s, d, t))

SpecSelect == Init /\ [][NextSelect]_vars

(***************************************************************************)
(* The resource locator on its own: a resource instance of any realm is    *)
(* serialized, as add serializes its arguments, and the key is split.      *)
(***************************************************************************)
\* unicode(resource.id) of a wiki page: its name, such as 'a', 'ab', 'a:b'
WikiNames ==
    {n \in UNION {[1..k -> {"a", "b", ":"}] : k \in 1..MaxIdLen} :
        n[1] # ":" /\ n[Len(n)] # ":"}

\* Resource instances of the global environment and of the product 'p':
\* the tickets and wiki pages
Resources ==
    {[prefix |-> p, realm |-> S("ticket"), id |-> t.id] :
        p \in {<<>>, S("p")}, t \in Tickets}
    \cup {[prefix |-> p, realm |-> S("wiki"), id |-> n] :
             p \in {<<>>, S("p")}, n \in WikiNames}

\* get_resource_id_from_instance(resource) returns the key; last keeps the
\* key and the three parts it was joined from
SerializeKey(resource) ==
    /\ last' = [last EXCEPT
                  !.op = "get_resource_id_from_instance",
                  !.relation_id = get_resource_id_from_instance(resource),
                  !.result = <<<<resource.prefix, resource.realm, resource.id>>>>]
    /\ UNCHANGED <<self, store, status, pc>>

\* split_full_id(key) of the key just returned
SplitKey ==
    /\ last.op = "get_resource_id_from_instance"
    /\ last' = [last EXCEPT
                  !.op = "split_full_id",
                  !.result = <<last.result[1], split_full_id(last.relation_id)>>]
    /\ UNCHANGED <<self, store, status, pc>>

NextLocator ==
    \/ \E r \in Resources : SerializeKey(r)
    \/ SplitKey

SpecLocator == Init /\ [][NextLocator]_vars

(***************************************************************************)
(* A caller that relates resources of any realm and name, as the           *)
(* signature of add allows, and deletes by ids with empty parts.           *)
(***************************************************************************)
WikiPage(name) == [prefix |-> <<>>, realm |-> S("wiki"), id |-> name]

\* Ticket 1 and the wiki pages 'a', 'a:b' and 'a,b'
InputResources ==
    {Ticket(1), WikiPage(<<"a">>), WikiPage(<<"a", ":", "b">>),
     WikiPage(<<"a", ",", "b">>)}

\* Ids of three parts of which some are empty: ',,' and ':ticket:1,,<type>'
EmptyPartIds(rs) ==
    {<<",", ",">>}
        \cup {join(RELATION_ID_DELIMITER,
                   <<get_resource_id_from_instance(Ticket(1)), <<>>, t>>) :
                 t \in DOMAIN rs.link_ends_map}

NextInputs ==
    \/ \E s \in InputResources, d \in InputResources,
          t \in DOMAIN self.link_ends_map : Add(s, d, t)
    \/ \E id \in {_create_relation_id(r) : r \in store}
                     \cup EmptyPartIds(self) : Delete(id)
    \/ GetRelations(Ticket(1))

SpecInputs == Init /\ [][NextInputs]_vars

(***************************************************************************)
(* The component built from any section an administrator can write: the    *)
(* options 'link1', 'link2', ... each declare an end or a pair of ends     *)
(* out of the names x, y, z, in any combination.                           *)
(***************************************************************************)
EndNames == {S("x"), S("y"), S("z")}

\* The option  name = end1  or  name = end1, end2
PairOption(name, end1, end2) ==
    [name |-> name,
     value |-> IF end2 = None THEN end1 ELSE end1 \o <<",", " ">> \o end2,
     validator |-> None,
     blocks |-> {}]

WrittenConfigs ==
    {[i \in DOMAIN ends |->
         PairOption(<<"link", ToString(i)>>, ends[i][1], ends[i][2])] :
        ends \in UNION {[1..k -> EndNames \X (EndNames \cup {None})] :
                           k \in 1..MaxPairs}}

\* The environment is started with the section config: __init__ runs
Configure(config) ==
    /\ store = {}
    /\ self' = RelationsSystem(config)
    /\ UNCHANGED <<store, status, last, pc>>

NextConfig == \E config \in WrittenConfigs : Configure(config)

SpecConfig == Init /\ [][NextConfig]_vars

(***************************************************************************)
(* Vocabulary of the properties.                                           *)
(***************************************************************************)
\* The registry's pair of an end
pairOf(t) == self.link_ends_map[t]

\* t is an end with a paired type
Paired(t) == t \in DOMAIN self.link_ends_map /\ Truthy(pairOf(t))

\* The row the pairing rule puts beside r
Reverse(r) == Row(r.destination, r.source, pairOf(r.type))

\* The nodes an edge of type t leads to from a node of the set from
Successors(st, t, from) ==
    {r.destination : r \in {e \in st : e.type = t /\ e.source \in from}}

\* The nodes reached from the set seen along edges of type t
RECURSIVE ReachFrom(_, _, _)
ReachFrom(st, t, seen) ==
    IF Successors(st, t, seen) \subseteq seen THEN seen
    ELSE ReachFrom(st, t, seen \cup Successors(st, t, seen))

\* b is reachable from a by a path of stored edges of type t (of any length)
Reachable(st, t, a, b) == b \in ReachFrom(st, t, {a})

\* The edges of type t form no cycle, self-loops included
Acyclic(st, t) ==
    \A r \in st : r.type = t => ~Reachable(st, t, r.destination, r.source)

\* The validator tag configured for an end, None without one
ValidatorTag(t) == DictGet(self._validators, t)

\* The (source, destination, type) a well-formed relation id names
IdOf(s, d, t) == join(RELATION_ID_DELIMITER, <<s, d, t>>)

\* The outgoing 'parent' relations of a resource
ParentsOf(st, s) ==
    {r \in st : r.source = s /\ r.type = PARENT_RELATION_TYPE}

(***************************************************************************)
(* C1: for a paired type T with pair T', a successful add(A, B, T) on a    *)
(* store holding neither (A, B, T) nor (B, A, T') leaves the store equal   *)
(* to the store before plus exactly these two (distinct) rows.             *)
(***************************************************************************)
C1_Case ==
    /\ last.op = "add"
    /\ last.outcome = "ok"
    /\ Paired(last.relation.type)
    /\ last.relation \notin last.before
    /\ Reverse(last.relation) \notin last.before

C1_PairedAddCreatesTwoRows ==
    C1_Case =>
        /\ store = last.before \cup {last.relation, Reverse(last.relation)}
        /\ Cardinality(store) = Cardinality(last.before) + 2

C1_Witness == C1_Case /\ last.before # {}

(***************************************************************************)
(* C2: for a paired type T with pair T', delete called with the id of      *)
(* (A, B, T) (and so also with the id of (B, A, T'), T' being paired with  *)
(* T) removes the rows (A, B, T) and (B, A, T') and changes no other row.  *)
(***************************************************************************)
C2_PairedDeleteRemovesBoth ==
    \A s \in Keys, d \in Keys, t \in DOMAIN self.link_ends_map :
        (last.op = "delete" /\ last.relation_id = IdOf(s, d, t) /\ Paired(t))
        => /\ last.outcome = "ok"
           /\ store = last.before \ {Row(s, d, t), Row(d, s, pairOf(t))}

C2_Witness ==
    \E s \in Keys, d \in Keys, t \in DOMAIN self.link_ends_map :
        /\ last.op = "delete"
        /\ last.relation_id = IdOf(s, d, t)
        /\ Paired(t)
        /\ {Row(s, d, t), Row(d, s, pairOf(t))} \subseteq last.before
        /\ store # {}

(***************************************************************************)
(* C3: for a type configured with a single end, a successful add(A, B, T)  *)
(* adds the one row (A, B, T) and nothing else.                            *)
(***************************************************************************)
C3_Case ==
    /\ last.op = "add"
    /\ last.outcome = "ok"
    /\ last.relation.type \in DOMAIN self.link_ends_map
    /\ ~Paired(last.relation.type)

C3_UnpairedAddCreatesOneRow ==
    C3_Case =>
        /\ last.relation \notin last.before
        /\ store = last.before \cup {last.relation}

C3_Witness == C3_Case /\ last.before # {}

(***************************************************************************)
(* C5: for a type T with validator no_cycle and an acyclic store, the      *)
(* validation of a proposed edge (A, B, T) rejects it if and only if A is  *)
(* reachable from B along stored edges of type T.                          *)
(***************************************************************************)
C5_Case ==
    /\ last.op = "add"
    /\ ValidatorTag(last.relation.type) = S("no_cycle")
    /\ Acyclic(last.before, last.relation.type)

C5_NoCycleRejectsIffPath ==
    C5_Case =>
        /\ last.validation # Crashed
        /\ (last.validation # Accepted) <=>
               Reachable(last.before, last.relation.type,
                         last.relation.destination, last.relation.source)
        /\ (last.validation # Accepted) <=> (last.outcome = "ValidationError")

\* a rejection for a path of two stored edges
C5_Witness ==
    /\ C5_Case
    /\ last.outcome = "ValidationError"
    /\ Len(last.validation.names) = 3

(***************************************************************************)
(* C4: in every store state of concurrent add and delete calls started on  *)
(* the empty store, a row (s, d, t) of a paired type t is stored exactly   *)
(* when the row (d, s, pairOf(t)) is stored (the stated implication for    *)
(* every row gives both directions, pairOf being symmetric).               *)
(***************************************************************************)
C4_BothSidesVisible ==
    \A r \in store : Paired(r.type) => Reverse(r) \in store

\* two adds past their validation, beside rows already stored
C4_Witness ==
    /\ \A p \in Procs :
           pc[p].at = "validated" /\ Paired(pc[p].relation.type)
    /\ \E r \in store : Paired(r.type)

(***************************************************************************)
(* C6: with parent = parent, child and validator parent_child,             *)
(* add(T1, T2, 'parent') on the empty store succeeds, and a following      *)
(* add(T1, T3, 'parent'), T3 other than T1 and T2, is rejected with a      *)
(* ValidationError whose message names T1 and lists T2.                    *)
(***************************************************************************)
KeyOf(i) == get_resource_id_from_instance(Ticket(i))

\* The short name of ticket i in a message
NameOf(i) == <<"#", ToString(i)>>

C6_FirstAdd ==
    /\ self.config = ParentConfig
    /\ last.op = "add"
    /\ last.before = {}
    /\ last.relation.type = S("parent")
    /\ last.relation.source # last.relation.destination

C6_SecondAdd(t1, t2, t3) ==
    /\ self.config = ParentConfig
    /\ last.op = "add"
    /\ last.before = {Row(KeyOf(t1), KeyOf(t2), S("parent")),
                      Row(KeyOf(t2), KeyOf(t1), S("child"))}
    /\ last.relation = Row(KeyOf(t1), KeyOf(t3), S("parent"))

C6_SecondParentRejected ==
    /\ C6_FirstAdd =>
           /\ last.outcome = "ok"
           /\ store = {last.relation,
                       Row(last.relation.destination, last.relation.source,
                           S("child"))}
    /\ \A t1 \in 1..NumRes, t2 \in 1..NumRes, t3 \in 1..NumRes :
           (t1 # t2 /\ t3 \notin {t1, t2} /\ C6_SecondAdd(t1, t2, t3))
           => /\ last.outcome = "ValidationError"
              /\ last.validation.kind = "multiple"
              /\ last.validation.source = NameOf(t1)
              /\ last.validation.names = <<NameOf(t2)>>
              /\ store = last.before

C6_Witness == C6_SecondAdd(1, 2, 3) /\ last.outcome = "ValidationError"

(***************************************************************************)
(* C7: with parent = parent, child and validator parent_child, after any   *)
(* sequence of add and delete calls (adds of 'parent' and of 'child'       *)
(* alike) no resource has more than one outgoing 'parent' relation.        *)
(***************************************************************************)
C7_SingleParent ==
    self.config = ParentConfig =>
        \A s \in Keys : Cardinality(ParentsOf(store, s)) <= 1

(***************************************************************************)
(* C8: after any sequence of sequential add and delete calls started on    *)
(* the empty store, the stored edges of each type configured with          *)
(* validator no_cycle form an acyclic graph, self-loops included.          *)
(***************************************************************************)
C8_NoCycleTypesAcyclic ==
    \A t \in DOMAIN self.link_ends_map :
        ValidatorTag(t) = S("no_cycle") => Acyclic(store, t)

\* an add that would close a cycle over stored edges of the pair was rejected
C8_Witness ==
    /\ self.config = DependsConfig
    /\ last.op = "add"
    /\ last.outcome = "ValidationError"
    /\ last.relation.source # last.relation.destination
    /\ Cardinality(store) >= 4

(***************************************************************************)
(* C9: when the validator rejects the proposed relation, add raises        *)
(* ValidationError and the store is the store before the call.             *)
(***************************************************************************)
C9_Case ==
    /\ last.op = "add"
    /\ last.validation \notin {Accepted, Crashed}

C9_RejectionLeavesStore ==
    C9_Case => last.outcome = "ValidationError" /\ store = last.before

C9_Witness == C9_Case /\ last.before # {}

(***************************************************************************)
(* C10: concurrent adds of validated types never leave the store holding   *)
(* a cycle of a type validated by no_cycle or parent_child, or a resource  *)
(* with two parents.                                                       *)
(***************************************************************************)
C10_ShapeUnderConcurrentAdds ==
    /\ \A t \in DOMAIN self.link_ends_map :
           ValidatorTag(t) = S("no_cycle") => Acyclic(store, t)
    /\ self.config = ParentConfig =>
           /\ Acyclic(store, PARENT_RELATION_TYPE)
           /\ \A s \in Keys : Cardinality(ParentsOf(store, s)) <= 1

(***************************************************************************)
(* C11: with blocks = blocks, blocked_by and only 'blocks' blocking, after *)
(* add(T1, T2, 'blocks') on the empty store and with T1 and T2 open,       *)
(* can_be_resolved(T1) completes and yields exactly one rejection, which   *)
(* cites T2.                                                               *)
(***************************************************************************)
\* The tickets a yielded rejection cites
Cited(rejection) == {rejection.blockers[i] : i \in 1..Len(rejection.blockers)}

\* can_be_resolved(T1) was called on the store add(T1, T2, 'blocks') leaves
BlocksScenario ==
    /\ self.config = BlocksConfig
    /\ store = {Row(KeyOf(1), KeyOf(2), S("blocks")),
                Row(KeyOf(2), KeyOf(1), S("blocked_by"))}
    /\ last.op = "can_be_resolved"
    /\ last.relation.source = KeyOf(1)
    /\ status[KeyOf(1)] = "new"

C11_OpenBlockerReported ==
    (BlocksScenario /\ status[KeyOf(2)] = "new") =>
        /\ last.outcome = "ok"
        /\ Len(last.result) = 1
        /\ Cited(last.result[1]) = {Ticket(2)}

(***************************************************************************)
(* C12: in the same scenario, once T2 is closed (T1 open, the relations    *)
(* unchanged), can_be_resolved(T1) completes and yields no rejection.      *)
(***************************************************************************)
C12_ClosedBlockerNotReported ==
    (BlocksScenario /\ status[KeyOf(2)] = "closed") =>
        /\ last.outcome = "ok"
        /\ last.result = <<>>

(***************************************************************************)
(* C13: the cycle search of an add terminates on every store the facade    *)
(* can produce: no add ends with the search exhausting the recursion       *)
(* limit, which is what revisiting a node of the active path leads to.     *)
(***************************************************************************)
C13_CycleSearchTerminates ==
    last.op = "add" => last.validation # Crashed /\ last.outcome # "RuntimeError"

(***************************************************************************)
(* C14: find_blockers terminates on every store the facade can produce,    *)
(* whatever the status of the tickets: no call ends with the traversal     *)
(* exhausting the recursion limit.                                         *)
(***************************************************************************)
C14_BlockerSearchTerminates ==
    last.op = "find_blockers" => last.outcome = "ok"

(***************************************************************************)
(* C15: delete called with an id that does not split on ',' into exactly   *)
(* three parts raises an error (ValueError) and leaves the store as it     *)
(* was: no row is removed.                                                 *)
(***************************************************************************)
C15_Case ==
    /\ last.op = "delete"
    /\ Len(split(last.relation_id, ",")) # 3

C15_MalformedIdFails ==
    C15_Case => last.outcome = "ValueError" /\ store = last.before

\* the id "onlytwo,parts", and an id whose first three parts name a stored row
C15_Witness ==
    /\ C15_Case
    /\ \/ last.relation_id = <<"onlytwo", ",", "parts">> /\ store # {}
       \/ \E r \in store :
              last.relation_id = _create_relation_id(r) \o <<",", "extra">>

(***************************************************************************)
(* C16: splitting the key get_resource_id_from_instance returns for a      *)
(* resource gives back exactly its three parts (prefix, realm, id).        *)
(***************************************************************************)
C16_KeyRoundTrip ==
    last.op = "split_full_id" => last.result[2] = last.result[1]

(***************************************************************************)
(* C17: a successful add returns the relation id 'source,destination,type' *)
(* of the relation it created.                                             *)
(***************************************************************************)
C17_AddReturnsId ==
    (last.op = "add" /\ last.outcome = "ok")
    => last.ret = _create_relation_id(last.relation)

(***************************************************************************)
(* C18: add, and delete with a well-formed id, called with a type name     *)
(* that is no end of a configured pair raise an error, and the store after *)
(* the call is the store before it.                                        *)
(***************************************************************************)
UnknownType(t) == t \notin DOMAIN self.link_ends_map

C18_AddCase == last.op = "add" /\ UnknownType(last.relation.type)

C18_DeleteCase ==
    /\ last.op = "delete"
    /\ Len(split(last.relation_id, ",")) = 3
    /\ UnknownType(split(last.relation_id, ",")[3])

C18_UnknownTypeFails ==
    (C18_AddCase \/ C18_DeleteCase)
    => last.outcome # "ok" /\ store = last.before

\* an add of an unknown type on a store that holds relations
C18_Witness == C18_AddCase /\ last.outcome = "KeyError" /\ last.before # {}

(***************************************************************************)
(* C19: the relations selected for a source are exactly the stored         *)
(* relations with that source (and, with a type filter, that type), each   *)
(* once; without a type filter they come ordered by (type, destination),   *)
(* with one by destination; get_relations lists the unfiltered selection   *)
(* in the same order.                                                      *)
(***************************************************************************)
\* a comes before b, or beside it, in the order of (type, destination)
TypeThenDestination(a, b) ==
    \/ StrLess(a.type, b.type)
    \/ a.type = b.type /\ ~StrLess(b.destination, a.destination)

\* The stored relations a selection is about
Selected(source, type) ==
    {r \in store : r.source = source /\ (type = None \/ r.type = type)}

C19_SelectionOrdered ==
    /\ last.op = "select" =>
           /\ {last.result[i] : i \in 1..Len(last.result)}
                  = Selected(last.relation.source, last.relation.type)
           /\ Len(last.result)
                  = Cardinality(Selected(last.relation.source,
                                         last.relation.type))
           /\ \A i \in 1..Len(last.result), j \in 1..Len(last.result) :
                  i < j =>
                      IF last.relation.type = None
                      THEN TypeThenDestination(last.result[i], last.result[j])
                      ELSE ~StrLess(last.result[j].destination,
                                    last.result[i].destination)
    /\ last.op = "get_relations" =>
           /\ {last.result[i].relation_id : i \in 1..Len(last.result)}
                  = {_create_relation_id(r) :
                        r \in Selected(last.relation.source, None)}
           /\ Len(last.result)
                  = Cardinality(Selected(last.relation.source, None))
           /\ \A i \in 1..Len(last.result), j \in 1..Len(last.result) :
                  i < j =>
                      /\ TypeThenDestination(
                             [type |-> last.result[i].type,
                              destination |-> last.result[i].destination_id],
                             [type |-> last.result[j].type,
                              destination |-> last.result[j].destination_id])

\* an unfiltered selection of relations of two types whose order by
\* (type, destination) is not their order by destination
C19_Witness ==
    /\ last.op = "select"
    /\ last.relation.type = None
    /\ \E i \in 1..Len(last.result), j \in 1..Len(last.result) :
           /\ i < j
           /\ StrLess(last.result[i].type, last.result[j].type)
           /\ StrLess(last.result[j].destination, last.result[i].destination)

(***************************************************************************)
(* C20: with parent = parent, child and validator parent_child, after any  *)
(* sequence of add and delete calls with the types 'parent' and 'child',   *)
(* the stored 'parent' edges form an acyclic graph.                        *)
(***************************************************************************)
C20_ParentEdgesAcyclic ==
    self.config = ParentConfig => Acyclic(store, PARENT_RELATION_TYPE)

(***************************************************************************)
(* C21: when _find_cycle, called for a proposed edge (A, B, T), returns a  *)
(* path, the path starts with B, ends with A, and each node of it is       *)
(* joined to the next by a stored edge of type T; when it returns None, A  *)
(* is not reachable from B along stored edges of type T.                   *)
(***************************************************************************)
C21_Case == last.op = "_find_cycle" /\ last.outcome = "ok"

\* path leads from b to a along stored edges of type t
PathFromTo(path, b, a, t) ==
    /\ Len(path) >= 1
    /\ path[1] = b
    /\ path[Len(path)] = a
    /\ \A i \in 1..(Len(path) - 1) : Row(path[i], path[i + 1], t) \in store

C22_RelationIdRoundTrip ==
    \A r \in store :
        _parse_relation_id(_create_relation_id(r))
            = <<r.source, r.destination, r.type>>

(***************************************************************************)
(* C23: delete called with an id of three comma-separated parts of which   *)
(* one at least is empty is rejected as malformed, as an id that does not  *)
(* split into three parts is: before the relation is loaded and before     *)
(* the transaction begins.                                                 *)
(***************************************************************************)
C23_Case ==
    /\ last.op = "delete"
    /\ Len(split(last.relation_id, ",")) = 3
    /\ \E i \in 1..3 : split(last.relation_id, ",")[i] = <<>>

C23_EmptyPartRejected ==
    C23_Case => last.outcome = "ValueError" /\ store = last.before

(***************************************************************************)
(* C24: no key add stores has more than three ':'-separated segments:      *)
(* serializing a resource whose prefix, realm or id holds ':' fails.       *)
(***************************************************************************)
C24_StoredKeysHaveThreeSegments ==
    \A r \in store :
        /\ Len(split_full_id(r.source)) <= 3
        /\ Len(split_full_id(r.destination)) <= 3

(***************************************************************************)
(* C25: whatever pairs the configuration declares, two pairs sharing an    *)
(* end name included, the lookup built by __init__ is symmetric: when      *)
(* pairOf(t) = t' with t' set, pairOf(t') = t.                             *)
(***************************************************************************)
C25_LookupSymmetric ==
    \A t \in DOMAIN self.link_ends_map :
        Truthy(pairOf(t)) =>
            /\ pairOf(t) \in DOMAIN self.link_ends_map
            /\ pairOf(pairOf(t)) = t

(***************************************************************************)
(* C26: when find_blockers returns, every resource of its result is open,  *)
(* each is reached from the destination of the origin relation along       *)
(* outgoing relations whose intermediate resources are all closed, and no  *)
(* outgoing relation of an open resource was followed: in particular,      *)
(* when the destination of the origin relation is open nothing is reached  *)
(* through it and the result is empty.                                     *)
(***************************************************************************)
C26_Case == last.op = "find_blockers" /\ last.outcome = "ok"

\* The keys of the resources find_blockers returned
Blockers == {get_resource_id_from_instance(last.result[i]) : i \in 1..Len(last.result)}

\* The destinations of the outgoing relations of the resources in from
Outgoing(from) == {r.destination : r \in {e \in store : e.source \in from}}

\* The resources reached from those in seen through closed resources
RECURSIVE ThroughClosed(_)
ThroughClosed(seen) ==
    IF Outgoing({n \in seen : status[n] = "closed"}) \subseteq seen THEN seen
    ELSE ThroughClosed(seen \cup Outgoing({n \in seen : status[n] = "closed"}))

C26_BlockersOpenAndReached ==
    C26_Case =>
        /\ \A b \in Blockers : status[b] # "closed"
        /\ Blockers \subseteq ThroughClosed(Outgoing({last.relation.destination}))

C26_BlockersBehindClosedOnly ==
    /\ C26_BlockersOpenAndReached
    /\ (C26_Case /\ status[last.relation.destination] # "closed")
       => Blockers = {}

(***************************************************************************)
(* C27: add called with a source or destination of a realm other than      *)
(* 'ticket' raises an error and stores no row, so that get_relations       *)
(* never fails on a relation add has stored.                               *)
(***************************************************************************)
\* The realm a key was serialized with
RealmOf(key) == split_full_id(key)[2]

C27_AddCase ==
    /\ last.op = "add"
    /\ \/ RealmOf(last.relation.source) # S("ticket")
       \/ RealmOf(last.relation.destination) # S("ticket")

C27_UnsupportedRealmFailsFast ==
    /\ C27_AddCase => last.outcome # "ok" /\ store = last.before
    /\ last.op = "get_relations" => last.outcome = "ok"

(***************************************************************************)
(* C28: when an add has succeeded and the next call deletes the added      *)
(* relation by its id, or for a paired type by the id of its reverse, the  *)
(* store after the delete is the store before the add.                     *)
(***************************************************************************)
\* The ids the relation of the latest add can be deleted by
AddedIds ==
    {_create_relation_id(last.relation)}
        \cup IF Paired(last.relation.type)
             THEN {_create_relation_id(Reverse(last.relation))}
             ELSE {}

C28_DeleteUndoesAdd ==
    [][(/\ last.op = "add"
        /\ last.outcome = "ok"
        /\ last'.op = "delete"
        /\ last'.relation_id \in AddedIds)
       => store' = last.before]_vars

\* a delete by the id of the reverse has removed two relations from a store
\* that held others
C28_Witness ==
    /\ last.op = "delete"
    /\ last.outcome = "ok"
    /\ store # {}
    /\ \E r \in last.before :
           /\ Paired(r.type)
           /\ r.type # self._links[1][1]
           /\ last.relation_id = _create_relation_id(r)
           /\ store = last.before \ {r, Reverse(r)}
           /\ Cardinality(store) = Cardinality(last.before) - 2

(***************************************************************************)
(* C29: for a type with validator no_cycle, and for type 'parent' with     *)
(* validator parent_child, add(A, A, T) is rejected on every store with a  *)
(* cycle whose path is [A], and the store is left as it was.               *)
(***************************************************************************)
C29_Case ==
    /\ last.op = "add"
    /\ last.relation.source = last.relation.destination
    /\ \/ ValidatorTag(last.relation.type) = S("no_cycle")
       \/ /\ ValidatorTag(last.relation.type) = S("parent_child")
          /\ last.relation.type = PARENT_RELATION_TYPE

C29_SelfRelationRejected ==
    C29_Case =>
        /\ last.outcome = "ValidationError"
        /\ last.validation.kind = "cycle"
        /\ \E i \in 1..NumRes :
               /\ last.relation.source = KeyOf(i)
               /\ last.validation.names = <<NameOf(i)>>
        /\ store = last.before

\* a self-relation proposed for a resource that has relations of the type
C29_Witness ==
    /\ C29_Case
    /\ \E r \in last.before :
           r.source = last.relation.source /\ r.type = last.relation.type

====
